---- MODULE Spec2Model ----
(***************************************************************************)
(* A model of package gostat (stat.go): Median, MAD, RollingWindow and     *)
(* MovStdDev.  A call is one step: the initial state holds a pending call  *)
(* with its arguments, the call's action computes what the function        *)
(* returns (or the run-time panic it ends in) and what it leaves in the    *)
(* caller's slice.                                                         *)
(*                                                                         *)
(* float64 values are records: a real is an exact rational num/den in      *)
(* lowest terms, and NaN, +Inf, -Inf are values of their own with the      *)
(* IEEE-754 rules for the operations the package uses.  Rounding is not    *)
(* modelled.  Go slices are 0-based and half-open; a window v[lo:hi] is    *)
(* the record [lo, hi] over the working sequence v.                        *)
(***************************************************************************)
EXTENDS Integers, Sequences, FiniteSets, TLC

VARIABLES
    call,      \* the function called
    x,         \* the elements of the caller's slice x (the memory it views)
    xin,       \* the elements x held when the call was made
    k,         \* window length
    omitNaNs,  \* RollingWindow / MovStdDev flags
    trailing,
    fullWnd,
    weights,   \* MovStdDev's weights; <<>> is nil
    spare,     \* capacity beyond the length that a slice's backing array has
    pc,        \* "call" before the call, "done" after it
    ret        \* what the call returned

vars == <<call, x, xin, k, omitNaNs, trailing, fullWnd, weights, spare, pc, ret>>

----------------------------------------------------------------------------
(* Bounds of the model *)

MaxStatLen == 4    \* len(x) of the calls of Median and MAD
MaxLen == 3        \* len(x) of the calls of RollingWindow and MovStdDev in Spec
MaxK == 4          \* k in 1..MaxK in Spec
MaxSpare == 1      \* spare capacity in 0..MaxSpare
MaxLongLen == 7    \* len(x) in SpecLong
MaxLongK == 5      \* k in 1..MaxLongK in SpecLong

----------------------------------------------------------------------------
(* float64 *)

RECURSIVE GCD(_, _)
GCD(a, b) == IF b = 0 THEN a ELSE GCD(b, a % b)

IAbs(n) == IF n < 0 THEN -n ELSE n

\* the real n/d, d # 0, in lowest terms with a positive denominator
Q(n, d) ==
    LET g == GCD(IAbs(n), IAbs(d))
        s == IF d < 0 THEN -1 ELSE 1
    IN  [kind |-> "num", num |-> (s * n) \div g, den |-> IAbs(d) \div g]

NaN == [kind |-> "nan", num |-> 0, den |-> 1]
PInf == [kind |-> "inf", num |-> 1, den |-> 1]
NInf == [kind |-> "inf", num |-> -1, den |-> 1]

IsNaN(f) == f.kind = "nan"
IsInf(f) == f.kind = "inf"

FSign(f) == IF f.num > 0 THEN 1 ELSE IF f.num < 0 THEN -1 ELSE 0

FNeg(f) == IF IsNaN(f) THEN NaN ELSE [f EXCEPT !.num = -f.num]

FAbs(f) == IF IsNaN(f) THEN NaN ELSE [f EXCEPT !.num = IAbs(f.num)]

FAdd(a, b) ==
    IF IsNaN(a) \/ IsNaN(b) THEN NaN
    ELSE IF IsInf(a) /\ IsInf(b) THEN (IF a = b THEN a ELSE NaN)
    ELSE IF IsInf(a) THEN a
    ELSE IF IsInf(b) THEN b
    ELSE Q(a.num * b.den + b.num * a.den, a.den * b.den)

FSub(a, b) == FAdd(a, FNeg(b))

FMul(a, b) ==
    IF IsNaN(a) \/ IsNaN(b) THEN NaN
    ELSE IF IsInf(a) \/ IsInf(b)
         THEN (IF FSign(a) * FSign(b) = 0 THEN NaN
               ELSE IF FSign(a) * FSign(b) > 0 THEN PInf ELSE NInf)
    ELSE Q(a.num * b.num, a.den * b.den)

FDiv(a, b) ==
    IF IsNaN(a) \/ IsNaN(b) THEN NaN
    ELSE IF IsInf(a) /\ IsInf(b) THEN NaN
    ELSE IF IsInf(a) THEN (IF FSign(b) >= 0 THEN a ELSE FNeg(a))
    ELSE IF IsInf(b) THEN Q(0, 1)
    ELSE IF b.num = 0
         THEN (IF a.num = 0 THEN NaN ELSE IF a.num > 0 THEN PInf ELSE NInf)
    ELSE Q(a.num * b.den, a.den * b.num)

\* a < b on float64: false when either is NaN
FLt(a, b) ==
    /\ ~IsNaN(a)
    /\ ~IsNaN(b)
    /\ a # b
    /\ IF IsInf(a) THEN a = NInf
       ELSE IF IsInf(b) THEN b = PInf
       ELSE a.num * b.den < b.num * a.den

\* math.Sqrt, kept symbolic on the reals: the root of the rational num/den
FSqrt(f) ==
    IF IsNaN(f) THEN NaN
    ELSE IF IsInf(f) THEN (IF f = PInf THEN PInf ELSE NaN)
    ELSE IF f.num < 0 THEN NaN
    ELSE [kind |-> "sqrt", num |-> f.num, den |-> f.den]

----------------------------------------------------------------------------
(* Slices *)

Min(a, b) == IF a < b THEN a ELSE b
Max(a, b) == IF a > b THEN a ELSE b

\* Go's integer division, truncated toward zero
GoDiv(a, b) == IF a >= 0 THEN a \div b ELSE -((-a) \div b)

\* s[lo:hi] of a sequence s (0-based, half-open)
Slice(s, lo, hi) == SubSeq(s, lo + 1, hi)

\* the capacity of a slice built by append: nil has none
AppendCap(s, sp) == IF Len(s) = 0 THEN 0 ELSE Len(s) + sp

----------------------------------------------------------------------------
(* Median and MAD *)

\* the order sort.Float64s sorts by: ascending, NaN before every other value
Float64Less(a, b) == FLt(a, b) \/ (IsNaN(a) /\ ~IsNaN(b))

RECURSIVE SortInsert(_, _)
SortInsert(s, e) ==
    IF s = <<>> THEN <<e>>
    ELSE IF Float64Less(e, s[1]) THEN <<e>> \o s
    ELSE <<s[1]>> \o SortInsert(Tail(s), e)

RECURSIVE Float64s(_)
Float64s(s) == IF s = <<>> THEN <<>> ELSE SortInsert(Float64s(Tail(s)), s[1])

\* a bug Median could have: sort.Float64s(x) on the argument itself
MedianSeriesInPlace(xs) == [series |-> Float64s(xs), x |-> Float64s(xs)]

\* series := append([]float64{}, x...); sort.Float64s(series)
\* series is a fresh array; x is what the caller's slice holds afterwards
MedianSeries(xs) == [series |-> Float64s(xs), x |-> xs]

Median(xs) ==
    LET m == MedianSeries(xs)
        series == m.series
        kk == Len(series) \div 2
    IN  IF Len(series) % 2 = 1
        THEN [panic |-> FALSE, line |-> 0, val |-> series[kk + 1], x |-> m.x]
        ELSE IF kk - 1 < 0
        THEN [panic |-> TRUE, line |-> 51, val |-> NaN, x |-> m.x]
        ELSE [panic |-> FALSE, line |-> 0,
              val |-> FMul(Q(1, 2), FAdd(series[kk], series[kk + 1])),
              x |-> m.x]

\* a bug MAD could have: no check for the empty slice
MADNoEmptyCheck(xs) ==
    LET m1 == Median(xs)
        series == [i \in 1..Len(m1.x) |-> FAbs(FSub(m1.val, m1.x[i]))]
        m2 == Median(series)
    IN  [panic |-> m1.panic \/ m2.panic,
         line |-> IF m1.panic THEN m1.line ELSE m2.line,
         val |-> FMul(Q(14826, 10000), m2.val),
         x |-> m1.x,
         medianArgs |-> <<xs, series>>]

\* medianArgs: the arguments of the calls of Median, in order
MAD(xs) ==
    IF Len(xs) = 0
    THEN [panic |-> FALSE, line |-> 0, val |-> Q(-1, 1), x |-> xs,
          medianArgs |-> <<>>]
    ELSE LET m1 == Median(xs)
             series == [i \in 1..Len(m1.x) |-> FAbs(FSub(m1.val, m1.x[i]))]
             m2 == Median(series)
         IN  [panic |-> m1.panic \/ m2.panic,
              line |-> IF m1.panic THEN m1.line ELSE m2.line,
              val |-> FMul(Q(14826, 10000), m2.val),
              x |-> m1.x,
              medianArgs |-> <<xs, series>>]

----------------------------------------------------------------------------
(* RollingWindow *)

\* a bug isRealVal could have: the infinities pass
isRealValNaNOnly(f) == ~IsNaN(f)

isRealVal(f) == ~IsNaN(f) /\ ~IsInf(f)

\* v is a fresh slice grown by append; x is what the caller's slice holds
\* afterwards
filterNaNs(xs) == [v |-> SelectSeq(xs, isRealVal), x |-> xs]

Win(lo, hi) == [lo |-> lo, hi |-> hi]

\* the zero value of []float64, which the spare capacity of rets holds
NilWin == Win(0, 0)

\* for i := 1; i < k; i++ { rets = append(rets, v[:i]) }
LeadingWindows(kk) == [i \in 1..(kk - 1) |-> Win(0, i)]

\* a bug the loop of full windows could have: i+k < len(v) drops the last one
FullWindowsShort(n, kk) ==
    LET cnt == Cardinality({i \in 0..n : i + kk < n})
    IN  [j \in 1..cnt |-> Win(j - 1, j - 1 + kk)]

\* for i := 0; i+k-1 < len(v); i++ { rets = append(rets, v[i:i+k]) }
FullWindows(n, kk) ==
    LET cnt == Cardinality({i \in 0..n : i + kk - 1 < n})
    IN  [j \in 1..cnt |-> Win(j - 1, j - 1 + kk)]

\* for i := k - 1; i > 0; i-- { rets = append(rets, v[len(v)-i:]) }
TrailingWindows(n, kk) == [j \in 1..(kk - 1) |-> Win(n - (kk - j), n)]

\* a slice expression s[lo:hi] is in range when 0 <= lo <= hi <= cap(s)
InRange(lo, hi, cap) == 0 <= lo /\ lo <= hi /\ hi <= cap

\* a bug Trim could have: an odd difference rounded up
TrimRoundUp(diff) == IF diff % 2 = 0 THEN GoDiv(diff, 2) ELSE GoDiv(diff + 1, 2)

Trim(diff) == IF diff % 2 = 0 THEN GoDiv(diff, 2) ELSE GoDiv(diff - 1, 2)

\* rets[lo:hi]: the entries past len(rets) are the zeroed spare capacity
Reslice(rets, lo, hi) ==
    [i \in 1..(hi - lo) |-> IF lo + i <= Len(rets) THEN rets[lo + i] ELSE NilWin]

\* a bug Reconcile could have: len(x) >= len(v) for len(x) >= len(rets)
ReconcileCompareV(rets, retscap, lenx, lenv, trail) ==
    IF lenx >= lenv THEN [panic |-> FALSE, line |-> 0, wins |-> rets]
    ELSE [panic |-> TRUE, line |-> 150, wins |-> <<>>]

\* a bug Reconcile could have: trailing keeps the last len(x) windows
ReconcileTrailingTail(rets, retscap, lenx, lenv, trail) ==
    IF lenx >= Len(rets) THEN [panic |-> FALSE, line |-> 0, wins |-> rets]
    ELSE IF ~trail
    THEN LET trim == Trim(Len(rets) - lenv)
         IN  IF InRange(trim, lenx + trim, retscap)
             THEN [panic |-> FALSE, line |-> 0,
                   wins |-> Reslice(rets, trim, lenx + trim)]
             ELSE [panic |-> TRUE, line |-> 150, wins |-> <<>>]
    ELSE [panic |-> FALSE, line |-> 0,
          wins |-> Reslice(rets, Len(rets) - lenx, Len(rets))]

\* a bug Reconcile could have: trailing keeps len(v) windows, not len(x)
ReconcileTrailingLenV(rets, retscap, lenx, lenv, trail) ==
    IF lenx >= Len(rets) THEN [panic |-> FALSE, line |-> 0, wins |-> rets]
    ELSE IF ~trail
    THEN LET trim == Trim(Len(rets) - lenv)
         IN  IF InRange(trim, lenx + trim, retscap)
             THEN [panic |-> FALSE, line |-> 0,
                   wins |-> Reslice(rets, trim, lenx + trim)]
             ELSE [panic |-> TRUE, line |-> 150, wins |-> <<>>]
    ELSE [panic |-> FALSE, line |-> 0, wins |-> Reslice(rets, 0, lenv)]

\* the part of RollingWindow after the windows are built
Reconcile(rets, retscap, lenx, lenv, trail) ==
    IF lenx >= Len(rets) THEN [panic |-> FALSE, line |-> 0, wins |-> rets]
    ELSE IF ~trail
    THEN LET diff == Len(rets) - lenv
             trim == Trim(diff)
         IN  IF InRange(trim, lenx + trim, retscap)
             THEN [panic |-> FALSE, line |-> 0,
                   wins |-> Reslice(rets, trim, lenx + trim)]
             ELSE [panic |-> TRUE, line |-> 150, wins |-> <<>>]
    ELSE IF InRange(0, lenx, retscap)
    THEN [panic |-> FALSE, line |-> 0, wins |-> Reslice(rets, 0, lenx)]
    ELSE [panic |-> TRUE, line |-> 153, wins |-> <<>>]

\* xcap is cap(x).  The result: panic and the line of the slice expression
\* that is out of range, or the windows returned; v, the working sequence the
\* windows are slices of; x, what the caller's slice holds afterwards.
RollingWindow(xs, xcap, kk, omit, trail, full, sp) ==
    LET f == IF omit THEN filterNaNs(xs) ELSE [v |-> xs, x |-> xs]
        v == f.v
        vcap == IF omit THEN AppendCap(v, sp) ELSE xcap
        n == Len(v)
        lead == IF full THEN <<>> ELSE LeadingWindows(kk)
        mid == FullWindows(n, kk)
        tail == IF full THEN <<>> ELSE TrailingWindows(n, kk)
        rets == lead \o mid \o tail
        rec == Reconcile(rets, AppendCap(rets, sp), Len(xs), n, trail)
        out(p, l, w) ==
            [panic |-> p, line |-> l, wins |-> w, v |-> v, x |-> f.x]
    IN  IF \E i \in 1..Len(lead) : ~InRange(lead[i].lo, lead[i].hi, vcap)
        THEN out(TRUE, 123, <<>>)
        ELSE IF \E i \in 1..Len(tail) : ~InRange(tail[i].lo, tail[i].hi, n)
        THEN out(TRUE, 133, <<>>)
        ELSE out(rec.panic, rec.line, rec.wins)

\* the elements of window w of the working sequence v
Elems(v, w) == Slice(v, w.lo, w.hi)

----------------------------------------------------------------------------
(* MovStdDev *)

RECURSIVE FSum(_)
FSum(s) == IF s = <<>> THEN Q(0, 1) ELSE FAdd(s[1], FSum(Tail(s)))

\* stat.StdDev of gonum: the corrected sample standard deviation, with the
\* first len(xs) weights applied when weights are given
StdDev(xs, ws) ==
    LET n == Len(xs)
        w(i) == IF ws = <<>> THEN Q(1, 1) ELSE Q(ws[i], 1)
        sumw == FSum([i \in 1..n |-> w(i)])
        mean == FDiv(FSum([i \in 1..n |-> FMul(w(i), xs[i])]), sumw)
        ss == FSum([i \in 1..n |->
                      FMul(w(i), FMul(FSub(xs[i], mean), FSub(xs[i], mean)))])
    IN  IF n = 0 THEN NaN
        ELSE FSqrt(FDiv(ss, FSub(sumw, Q(1, 1))))

\* a bug the loop of MovStdDev could have: each deviation taken over all of
\* v up to the end of the window
StdDevsCumulative(rolling, v, ws) ==
    [i \in 1..Len(rolling) |-> StdDev(Slice(v, 0, rolling[i].hi), ws)]

\* for i := 0; i < len(rolling); i++ { stdDevs[i] = stat.StdDev(rolling[i], weights) }
StdDevs(rolling, v, ws) ==
    [i \in 1..Len(rolling) |-> StdDev(Elems(v, rolling[i]), ws)]

MovStdDev(xs, xcap, ws, kk, omit, trail, full, sp) ==
    LET r == RollingWindow(xs, xcap, kk, omit, trail, full, sp)
    IN  [panic |-> r.panic, line |-> r.line, wins |-> r.wins, v |-> r.v,
         x |-> r.x,
         vals |-> IF r.panic THEN <<>> ELSE StdDevs(r.wins, r.v, ws)]

----------------------------------------------------------------------------
(* The calls *)

\* the sequences over S of length at most n
SeqsUpTo(S, n) == UNION {[1..m -> S] : m \in 0..n}

StatFloats == {Q(-1, 1), Q(1, 1), Q(2, 1), NaN, PInf}
WinFloats == {Q(1, 1), Q(2, 1), NaN, NInf}
LongFloats == {Q(1, 1), NaN}

\* nil, or one weight per element of the longest window
Weights == {<<>>, [i \in 1..MaxK |-> IF i = 1 THEN 2 ELSE 1]}

NoRet == [panic |-> FALSE, line |-> 0]

InitStat ==
    /\ call \in {"Median", "MAD"}
    /\ x \in SeqsUpTo(StatFloats, MaxStatLen)
    /\ k = 1
    /\ omitNaNs = FALSE /\ trailing = FALSE /\ fullWnd = FALSE
    /\ weights = <<>>
    /\ spare = 0

InitWindow ==
    /\ call \in {"RollingWindow", "MovStdDev"}
    /\ x \in SeqsUpTo(WinFloats, MaxLen)
    /\ k \in 1..MaxK
    /\ omitNaNs \in BOOLEAN /\ trailing \in BOOLEAN /\ fullWnd \in BOOLEAN
    /\ weights \in (IF call = "MovStdDev" THEN Weights ELSE {<<>>})
    /\ spare \in 0..MaxSpare

Init ==
    /\ InitStat \/ InitWindow
    /\ xin = x
    /\ pc = "call"
    /\ ret = NoRet

Return(r) ==
    /\ pc' = "done"
    /\ ret' = r
    /\ x' = r.x
    /\ UNCHANGED <<call, xin, k, omitNaNs, trailing, fullWnd, weights, spare>>

CallMedian == pc = "call" /\ call = "Median" /\ Return(Median(x))

CallMAD == pc = "call" /\ call = "MAD" /\ Return(MAD(x))

CallRollingWindow ==
    /\ pc = "call"
    /\ call = "RollingWindow"
    /\ Return(RollingWindow(x, Len(x) + spare, k, omitNaNs, trailing, fullWnd, spare))

CallMovStdDev ==
    /\ pc = "call"
    /\ call = "MovStdDev"
    /\ Return(MovStdDev(x, Len(x) + spare, weights, k, omitNaNs, trailing, fullWnd, spare))

Next == CallMedian \/ CallMAD \/ CallRollingWindow \/ CallMovStdDev

Spec == Init /\ [][Next]_vars

\* RollingWindow alone, on longer sequences of fewer values
InitLong ==
    /\ call = "RollingWindow"
    /\ x \in SeqsUpTo(LongFloats, MaxLongLen)
    /\ k \in 1..MaxLongK
    /\ omitNaNs \in BOOLEAN /\ trailing \in BOOLEAN /\ fullWnd \in BOOLEAN
    /\ weights = <<>>
    /\ spare \in 0..MaxSpare
    /\ xin = x
    /\ pc = "call"
    /\ ret = NoRet

NextLong == CallRollingWindow

SpecLong == InitLong /\ [][NextLong]_vars

----------------------------------------------------------------------------
(* Properties *)

Done(f) == pc = "done" /\ call = f

\* f returned: it did not end in a run-time panic
Returned(f) == Done(f) /\ ~ret.panic

\* the real (neither NaN nor infinite) elements of s, in their order
RECURSIVE RealsOf(_)
RealsOf(s) ==
    IF s = <<>> THEN <<>>
    ELSE IF s[1].kind = "num" THEN <<s[1]>> \o RealsOf(Tail(s))
    ELSE RealsOf(Tail(s))

\* the sequence RollingWindow is to take its windows from
Working == IF omitNaNs THEN RealsOf(xin) ELSE xin

\* the elements of the i-th window returned
WinElems(i) == Elems(ret.v, ret.wins[i])

\* C1: with omitNaNs=false, fullWnd=false and 1 <= k <= len(x), RollingWindow
\* returns exactly len(x) windows, whatever trailing is.
C1_OneWindowPerElement ==
    (Done("RollingWindow") /\ ~omitNaNs /\ ~fullWnd /\ 1 <= k /\ k <= Len(xin))
        => (~ret.panic /\ Len(ret.wins) = Len(xin))

C1_Witness ==
    /\ Returned("RollingWindow")
    /\ ~omitNaNs /\ ~fullWnd /\ trailing
    /\ k = 3 /\ Len(xin) = 4
    /\ Len(ret.wins) = 4

\* C2: with fullWnd=true RollingWindow returns exactly the full windows
\* v[i:i+k], i = 0..len(v)-k, in that order: max(0, len(v)-k+1) windows of k
\* elements each, none removed by the reconciliation, whatever trailing is.
C2_FullWindowsOnly ==
    (Done("RollingWindow") /\ fullWnd)
        => /\ ~ret.panic
           /\ ret.v = Working
           /\ Len(ret.wins) = Max(0, Len(Working) - k + 1)
           /\ \A i \in 1..Len(ret.wins) :
                /\ Len(WinElems(i)) = k
                /\ WinElems(i) = SubSeq(Working, i, i + k - 1)

C2_Witness ==
    /\ Returned("RollingWindow")
    /\ fullWnd /\ omitNaNs /\ trailing
    /\ k = 2 /\ Len(xin) = 4 /\ Len(Working) = 3
    /\ Len(ret.wins) = 2

\* C3: centered alignment: with omitNaNs=false, trailing=false, fullWnd=false
\* and 1 <= k <= n = len(x), output j (0 <= j < n) is
\* x[max(0, j - floor(k/2)) : min(n, j + ceil(k/2))].
C3_Centered ==
    (Done("RollingWindow") /\ ~omitNaNs /\ ~trailing /\ ~fullWnd
        /\ 1 <= k /\ k <= Len(xin))
        => /\ ~ret.panic
           /\ Len(ret.wins) = Len(xin)
           /\ \A j \in 0..(Len(xin) - 1) :
                WinElems(j + 1) =
                    Slice(xin, Max(0, j - (k \div 2)),
                          Min(Len(xin), j + ((k + 1) \div 2)))

C3_Witness ==
    /\ Returned("RollingWindow")
    /\ ~omitNaNs /\ ~trailing /\ ~fullWnd
    /\ k = 2 /\ Len(xin) = 4
    /\ Len(WinElems(1)) = 1 /\ Len(WinElems(4)) = 2

\* C4: trailing alignment: with omitNaNs=false, trailing=true, fullWnd=false
\* and 1 <= k <= n = len(x), output j is x[max(0, j-k+1) : j+1]; the result
\* holds every growing leading window and every full window, and no
\* shrinking trailing boundary window.
C4_Trailing ==
    (Done("RollingWindow") /\ ~omitNaNs /\ trailing /\ ~fullWnd
        /\ 1 <= k /\ k <= Len(xin))
        => /\ ~ret.panic
           /\ Len(ret.wins) = Len(xin)
           /\ \A j \in 0..(Len(xin) - 1) :
                WinElems(j + 1) = Slice(xin, Max(0, j - k + 1), j + 1)
           /\ \A i \in 1..(k - 1) :
                \E j \in 1..Len(ret.wins) : ret.wins[j] = Win(0, i)
           /\ \A i \in 0..(Len(xin) - k) :
                \E j \in 1..Len(ret.wins) : ret.wins[j] = Win(i, i + k)
           /\ \A j \in 1..Len(ret.wins) :
                ret.wins[j].lo = 0 \/ ret.wins[j].hi - ret.wins[j].lo = k

C4_Witness ==
    /\ Returned("RollingWindow")
    /\ ~omitNaNs /\ trailing /\ ~fullWnd
    /\ k = 3 /\ Len(xin) = 4
    /\ ret.wins = <<Win(0, 1), Win(0, 2), Win(0, 3), Win(1, 4)>>

\* C5: with omitNaNs=true every element of every returned window is a real
\* element of x, every returned window is a contiguous run of the real
\* elements of x in their order, and x is not modified.
C5_OmitNaNs ==
    (Done("RollingWindow") /\ omitNaNs)
        => /\ x = xin
           /\ ~ret.panic =>
                /\ ret.v = RealsOf(xin)
                /\ \A i \in 1..Len(ret.wins) :
                     /\ InRange(ret.wins[i].lo, ret.wins[i].hi, Len(RealsOf(xin)))
                     /\ \A e \in 1..Len(WinElems(i)) :
                          /\ WinElems(i)[e].kind = "num"
                          /\ \E p \in 1..Len(xin) : xin[p] = WinElems(i)[e]

C5_Witness ==
    /\ Returned("RollingWindow")
    /\ omitNaNs /\ ~fullWnd
    /\ k = 2
    /\ xin = <<Q(1, 1), NInf, Q(2, 1)>>
    /\ ret.wins = <<Win(0, 1), Win(0, 2), Win(1, 2)>>

\* what RollingWindow returns for the arguments of the pending call, with x
\* holding xs
RollingOf(xs) ==
    RollingWindow(xs, Len(xs) + spare, k, omitNaNs, trailing, fullWnd, spare)

\* what MovStdDev returns for the arguments of the pending call, with x
\* holding xs
MovStdDevOf(xs) ==
    MovStdDev(xs, Len(xs) + spare, weights, k, omitNaNs, trailing, fullWnd, spare)

\* window w holds position p of x (1-based), when the windows are over x
Holds(w, p) == w.lo < p /\ p <= w.hi

\* C6: MovStdDev returns one value per window RollingWindow returns, in the
\* same order, value i computed from window i alone; with omitNaNs=false a
\* NaN/Inf element x[p] makes NaN every output whose window holds position p,
\* and leaves every other output what it is with a real in its place.
C6_OneDeviationPerWindow ==
    Returned("MovStdDev")
        => /\ ~RollingOf(xin).panic
           /\ ret.wins = RollingOf(xin).wins
           /\ Len(ret.vals) = Len(ret.wins)
           /\ \A i \in 1..Len(ret.vals) :
                ret.vals[i] = StdDev(WinElems(i), weights)
           /\ ~omitNaNs =>
                \A p \in 1..Len(xin) :
                    xin[p].kind # "num" =>
                        \A i \in 1..Len(ret.vals) :
                            IF Holds(ret.wins[i], p)
                            THEN IsNaN(ret.vals[i])
                            ELSE \A r \in {Q(1, 1), Q(2, 1)} :
                                    MovStdDevOf([xin EXCEPT ![p] = r]).vals[i]
                                        = ret.vals[i]

C6_Witness ==
    /\ Returned("MovStdDev")
    /\ ~omitNaNs /\ ~trailing /\ ~fullWnd
    /\ weights = <<>>
    /\ k = 2
    /\ xin = <<Q(1, 1), Q(2, 1), NaN>>
    /\ Len(ret.vals) = 3
    /\ ret.vals[2] = FSqrt(Q(1, 2))
    /\ IsNaN(ret.vals[3])

\* C7: Median never mutates its argument: after Median(x), x holds the same
\* elements in the same order as before the call.
C7_MedianKeepsArgument == Done("Median") => x = xin

C7_Witness ==
    /\ Returned("Median")
    /\ Len(xin) = 3
    /\ FLt(xin[2], xin[1])
    /\ Float64s(xin) # xin
    /\ x = xin
    /\ ret.val = Q(1, 1)

\* C8: MAD returns -1.0 for the empty slice without calling Median; for a
\* non-empty slice both calls of Median get len(x) >= 1 elements; for a
\* non-empty slice of reals MAD is >= 0; so -1.0 is returned if and only if
\* x is empty.
C8_MADSentinel ==
    Done("MAD")
        => /\ ~ret.panic
           /\ Len(xin) = 0 => (ret.val = Q(-1, 1) /\ ret.medianArgs = <<>>)
           /\ Len(xin) > 0 =>
                /\ Len(ret.medianArgs) = 2
                /\ \A c \in 1..2 :
                     Len(ret.medianArgs[c]) = Len(xin) /\ Len(ret.medianArgs[c]) >= 1
           /\ (Len(xin) > 0 /\ \A i \in 1..Len(xin) : xin[i].kind = "num")
                => (ret.val.kind = "num" /\ ret.val.num >= 0)
           /\ (ret.val = Q(-1, 1)) <=> (Len(xin) = 0)

C8_Witness ==
    /\ Returned("MAD")
    /\ Len(xin) = 0
    /\ ret.val = Q(-1, 1)
    /\ ret.medianArgs = <<>>

\* C9, as claimed: whenever fullWnd=false the sequence of windows that
\* RollingWindow returns has exactly len(x) entries.
C9_AlwaysLenX ==
    (Returned("RollingWindow") /\ ~fullWnd) => Len(ret.wins) = Len(xin)

\* C9, amended: whenever fullWnd=false the sequence of windows that
\* RollingWindow returns has min(len(x), len(v)+k-1) entries, v being x
\* without its NaN/Inf elements when omitNaNs and x otherwise: exactly len(x)
\* with omitNaNs=false, and fewer than len(x) when omitNaNs removed k
\* elements or more.
C9_AtMostLenX ==
    (Returned("RollingWindow") /\ ~fullWnd)
        => /\ Len(ret.wins) = Min(Len(xin), Len(Working) + k - 1)
           /\ ~omitNaNs => Len(ret.wins) = Len(xin)
           /\ Len(xin) - Len(Working) >= k => Len(ret.wins) < Len(xin)

C9_Witness ==
    /\ Returned("RollingWindow")
    /\ ~fullWnd /\ omitNaNs /\ ~trailing
    /\ k = 2
    /\ Len(xin) = 5 /\ Len(Working) = 3
    /\ Len(ret.wins) = 4

\* C10, as claimed: for every k >= 1 and every combination of the flags,
\* RollingWindow completes with every slice expression in range, and every
\* returned window is a non-empty slice of v of at most k elements.
C10_WindowShape ==
    Done("RollingWindow")
        => /\ ~ret.panic
           /\ \A i \in 1..Len(ret.wins) :
                /\ InRange(ret.wins[i].lo, ret.wins[i].hi, Len(ret.v))
                /\ Len(WinElems(i)) >= 1
                /\ Len(WinElems(i)) <= k

====
